---------------------------- MODULE Spec2Model ----------------------------
(***************************************************************************)
(* Process supervision layer of agentcore-telco.                           *)
(*                                                                         *)
(*   - AWSMCPManager (eks-agentcore/agent.py): fleet initialization, one   *)
(*     worker thread per server joined against a per-server timeout.       *)
(*                                                                         *)
(* Time is a global clock `now` in milliseconds.  A thread's non-blocking  *)
(* statements take no time; the clock only advances (Tick) when every      *)
(* thread is blocked, and then jumps to the next instant at which a        *)
(* blocked call can return (a join deadline, a child answering).           *)
(***************************************************************************)
EXTENDS Integers, Sequences, FiniteSets, TLC

(* ------------------------------ bounds --------------------------------- *)
\* number of entries of mcpServers in the configuration file
NumServers == 3
\* tools each server advertises
ToolsPerServer == 2
\* threads calling handle_request on one McpServerWrapper
NumCallers == 2
\* requests each of them makes
MaxCalls == 1
\* signals delivered to the process
MaxSignals == 2
\* child processes one McpServerWrapper can spawn
MaxSpawns == 2
\* pages a server splits its tools into, and tools on a page
MaxPages == 3
PageSize == 2

(* ------------------------- program constants --------------------------- *)
\* timeout = 2.0 if server_name in problematic_servers else 5.0   (ms)
ProblematicTimeout == 2000
DefaultTimeout == 5000
\* cleanup_thread.join(timeout=3.0) in cleanup_all_resources
CoordinatorTimeout == 3000
\* cleanup_client_with_timeout(server_name, client, timeout=2.0)
ClientCleanupTimeout == 2000
\* time.sleep(0.1) between process.terminate() and process.kill()
TerminateGrace == 100
\* max_iterations = 10  # Prevent infinite loops
max_iterations == 10
\* self.process.wait(timeout=5) in McpServerWrapper.cleanup
WaitTimeout == 5000

\* "never": the finish time of a call that does not return
Never == 0 - 1

VARIABLES
    now,            \* wall clock, ms
    servers,        \* the configuration and the behaviour of each child (input)
    initPc,         \* position of the thread running initialize_aws_mcp_clients
    idx,            \* server the for-loop is at (0 before the first)
    joinStart,      \* time init_thread.start() was called for server idx
    joinDeadline,   \* joinStart + timeout
    initStart,      \* time initialize_aws_mcp_clients was entered
    initEnd,        \* time it returned (Never before)
    wk,             \* wk[s]: the init_client_worker thread of server s
    mcp_clients,    \* self.mcp_clients: its keys, in insertion order
    mcp_tools,      \* self.mcp_tools: list of tools
    attempted,      \* servers _initialize_single_mcp_client was called for
    timedOut,       \* servers whose join expired ("timed out ..., skipping")
    raisedOut,      \* an exception left initialize_aws_mcp_clients
    proc,           \* proc[s]: the child process of server s
    aws_mcp_manager,    \* the global: "None" or "mgr" (the one AWSMCPManager)
    \* ---- shutdown (cleanup_all_resources, AWSMCPManager.cleanup)
    hostExited,     \* os._exit(0) was called: no thread runs any more
    mcp_client,     \* the global gateway client: "None" or "started"
    cleanup_done,   \* the global _cleanup_done
    cleanup_registered, \* self._cleanup_registered
    coordPc,        \* position of the thread running cleanup_all_resources
    coordStart,     \* time cleanup_thread.start() was called there
    ct,             \* the cleanup_with_timeout thread
    cw,             \* cw[s]: the cleanup_worker thread of client s
    stopped,        \* clients whose stop() was called
    second,         \* the cleanup functions entered again after a first pass
    \* ---- McpServerWrapper
    process,        \* self.process: 0 (None) or the child it tracks
    children,       \* the child processes spawned so far, and their pipes
    callers,        \* callers[c]: a thread inside handle_request
    calls,          \* calls[c]: requests caller c has made
    last,           \* last[c]: the last request of c and what it got back
    wc,             \* the thread inside McpServerWrapper.cleanup
    \* ---- get_full_tools_list
    pgServer,       \* how the server behind the client pages its tools (input)
    pg,             \* the locals of get_full_tools_list
    lt,             \* one call of _get_tools_from_client: its input and result
    ec,             \* one construction of a child's environment
    sg              \* the call stack of the main thread, with its signal handlers

fleetVars == <<servers, initPc, idx, joinStart, joinDeadline, initStart, initEnd,
               wk, mcp_clients, mcp_tools, attempted, timedOut, raisedOut,
               aws_mcp_manager, proc>>

shutVars == <<hostExited, mcp_client, cleanup_done, cleanup_registered, coordPc,
              coordStart, ct, cw, stopped, second>>

shutVarsButCw == <<hostExited, mcp_client, cleanup_done, cleanup_registered,
                   coordPc, coordStart, ct, stopped, second>>

wrapVars == <<process, children, callers, calls, last, wc>>

pageVars == <<pgServer, pg, lt, ec, sg>>

others == <<shutVars, wrapVars, pageVars>>

vars == <<now, fleetVars, shutVars, wrapVars, pageVars>>

(* --------------------------- configuration ----------------------------- *)
Servers == 1 .. NumServers

\* keys of mcpServers, in file order
ServerName(s) ==
    CASE s = 1 -> "awslabs.eks-mcp-server"
      [] s = 2 -> "awslabs.prometheus-mcp-server"
      [] s = 3 -> "awslabs.cloudwatch-mcp-server"
      [] s = 4 -> "aws-knowledge-mcp-server"
      [] OTHER -> "awslabs.core-mcp-server"

problematic_servers ==
    {"awslabs.prometheus-mcp-server", "aws-knowledge-mcp-server",
     "awslabs.cloudwatch-mcp-server"}

\* response times of a child that answers (ms)
Durations == {50, 3000, 5000}

\* what one server's configuration entry and child can be:
\*   cfg   : the entry is enabled, has disabled = true, or has no command
\*   start : threading.Thread.start() fails ("nothread"), or client.start()
\*           returns after dur ms ("ok"), raises ("raise") or never returns
\*   list  : client.list_tools_sync() returns tools, raises, or never returns
Behaviours ==
    {[cfg |-> c, start |-> "ok", dur |-> 50, list |-> "tools"] :
        c \in {"disabled", "nocommand"}}
    \cup {[cfg |-> "enabled", start |-> st, dur |-> 50, list |-> "tools"] :
        st \in {"nothread", "raise", "hang"}}
    \cup {[cfg |-> "enabled", start |-> "ok", dur |-> d, list |-> "tools"] :
        d \in Durations}
    \cup {[cfg |-> "enabled", start |-> "ok", dur |-> 50, list |-> l] :
        l \in {"raise", "hang"}}

\* the tools server s advertises; names may collide across servers
ServerTools(s) ==
    [k \in 1 .. ToolsPerServer |->
        [name |-> k, _original_name |-> k, _server_name |-> ServerName(s)]]

\* a variant of timeout_for: 5.0 s for every server
timeout_default_only(s) == DefaultTimeout

\* a variant of timeout_for: the two budgets exchanged
timeout_swapped(s) ==
    IF ServerName(s) \in problematic_servers THEN DefaultTimeout
    ELSE ProblematicTimeout

\* timeout = 2.0 if server_name in problematic_servers else 5.0
timeout_for(s) ==
    IF ServerName(s) \in problematic_servers THEN ProblematicTimeout
    ELSE DefaultTimeout

\* a variant of enabled_servers: the 'disabled' entry is not looked at
enabled_servers_all == Servers

\* enabled_servers = {name: config ... if not config.get('disabled', False)}
enabled_servers == {s \in Servers : servers[s].cfg # "disabled"}

\* the worker thread of s is alive (init_thread.is_alive())
is_alive(s) == wk[s].pc \in {"starting", "listing", "write_clients", "write_tools"}

\* the keys of a dict kept as the sequence of its keys
Keys(d) == {d[i] : i \in 1 .. Len(d)}

\* d[k] = v on a dict: a new key goes last, a present key keeps its place
dict_set(d, k) == IF k \in Keys(d) THEN d ELSE Append(d, k)

NoWorker == [pc |-> "none", finishAt |-> Never, tools |-> <<>>]

(* ======================================================================= *)
(*       McpServerWrapper (awslabs-mcp-lambda/lambda/mcp_wrapper.py)       *)
(* ======================================================================= *)
Callers == 1 .. NumCallers

\* self.config: the command, its arguments and its environment
config == [command |-> "command", args |-> <<"arg1", "arg2">>, env |-> <<>>]

\* cmd = [self.config["command"]] + self.config.get("args", [])
cmd == <<config.command>> \o config.args
Pids == 1 .. MaxSpawns

NoResponse == [kind |-> "none", id |-> <<0, 0>>]

\* a line on the child's stdout that is not JSON
Garbage == [kind |-> "garbage", id |-> <<0, 0>>]

\* err: the failure the call met ("none": no failure); stale: the call
\* found self.process set to a child that had exited
IdleCaller ==
    [pc |-> "idle", process |-> 0, req |-> <<0, 0>>, resp |-> NoResponse,
     err |-> "none", tracked |-> 0, stale |-> FALSE]

\* nobody is inside McpServerWrapper.cleanup; ops: what it called on the
\* process, left: self.process as its last return left it
NoWrapperCleanup == [pc |-> "idle", ops |-> <<>>, deadline |-> 0, left |-> 0]

\* self.lock is held (by the thread inside cleanup; _ensure_server_running
\* holds it within one step)
lock_held == wc.pc \in {"wait", "clear"}

\* no call of handle_request has returned yet
NoCall == [req |-> <<0, 0>>, resp |-> NoResponse, err |-> "none", stale |-> FALSE]

\* McpServerWrapper.__init__: self.process = None
InitWrapper ==
    /\ process = 0
    /\ children = <<>>
    /\ callers = [c \in Callers |-> IdleCaller]
    /\ calls = [c \in Callers |-> 0]
    /\ last = [c \in Callers |-> NoCall]
    /\ wc = NoWrapperCleanup

\* process.poll() is not None
Exited(p) == ~children[p].alive

\* handle_request(request) is entered by caller c with a request id of its own
handle_request(c) ==
    /\ callers[c].pc = "idle"
    /\ calls[c] < MaxCalls
    /\ calls' = [calls EXCEPT ![c] = calls[c] + 1]
    /\ callers' = [callers EXCEPT ![c] =
            [pc |-> "ensure", process |-> 0, req |-> <<c, calls[c] + 1>>,
             resp |-> NoResponse, err |-> "none", tracked |-> process,
             stale |-> process # 0 /\ Exited(process)]]
    /\ UNCHANGED <<wc, now, fleetVars, shutVars, pageVars, process, children, last>>

\* a variant of ensure_server_running: no test of self.process.poll()
ensure_server_running_without_poll(c) ==
    /\ callers[c].pc = "ensure"
    /\ ~lock_held
    /\ IF process = 0
         THEN \E ok \in BOOLEAN :
                IF ok /\ Len(children) < MaxSpawns
                  THEN /\ children' = Append(children,
                              [alive |-> TRUE, stdin |-> <<>>, stdout |-> <<>>,
                               signalled |-> FALSE, killed |-> FALSE,
                               cmd |-> cmd])
                       /\ process' = Len(children) + 1
                       /\ callers' = [callers EXCEPT ![c].pc = "ensure_return"]
                  ELSE /\ callers' = [callers EXCEPT ![c].pc = "raised",
                                                     ![c].err = "spawn"]
                       /\ UNCHANGED <<children, process>>
         ELSE /\ callers' = [callers EXCEPT ![c].pc = "ensure_return"]
              /\ UNCHANGED <<children, process>>
    /\ UNCHANGED <<wc, now, fleetVars, shutVars, pageVars, calls, last>>

\* a variant of ensure_server_running: a process is started on every call
ensure_server_running_always_spawns(c) ==
    /\ callers[c].pc = "ensure"
    /\ ~lock_held
    /\ IF TRUE
         THEN \E ok \in BOOLEAN :
                IF ok /\ Len(children) < MaxSpawns
                  THEN /\ children' = Append(children,
                              [alive |-> TRUE, stdin |-> <<>>, stdout |-> <<>>,
                               signalled |-> FALSE, killed |-> FALSE,
                               cmd |-> cmd])
                       /\ process' = Len(children) + 1
                       /\ callers' = [callers EXCEPT ![c].pc = "ensure_return"]
                  ELSE /\ callers' = [callers EXCEPT ![c].pc = "raised",
                                                     ![c].err = "spawn"]
                       /\ UNCHANGED <<children, process>>
         ELSE /\ callers' = [callers EXCEPT ![c].pc = "ensure_return"]
              /\ UNCHANGED <<children, process>>
    /\ UNCHANGED <<wc, now, fleetVars, shutVars, pageVars, calls, last>>

\* _ensure_server_running, the block under self.lock: spawn when no process
\* is tracked or the tracked one has exited; subprocess.Popen may raise
ensure_server_running(c) ==
    /\ callers[c].pc = "ensure"
    /\ ~lock_held
    /\ IF process = 0 \/ Exited(process)
         THEN \E ok \in BOOLEAN :
                IF ok /\ Len(children) < MaxSpawns
                  THEN /\ children' = Append(children,
                              [alive |-> TRUE, stdin |-> <<>>, stdout |-> <<>>,
                               signalled |-> FALSE, killed |-> FALSE,
                               cmd |-> cmd])
                       /\ process' = Len(children) + 1
                       /\ callers' = [callers EXCEPT ![c].pc = "ensure_return"]
                  ELSE /\ callers' = [callers EXCEPT ![c].pc = "raised",
                                                     ![c].err = "spawn"]
                       /\ UNCHANGED <<children, process>>
         ELSE /\ callers' = [callers EXCEPT ![c].pc = "ensure_return"]
              /\ UNCHANGED <<children, process>>
    /\ UNCHANGED <<wc, now, fleetVars, shutVars, pageVars, calls, last>>

\* return self.process   (after the lock is released)
ensure_server_running_return(c) ==
    /\ callers[c].pc = "ensure_return"
    /\ callers' = [callers EXCEPT ![c].pc = "write", ![c].process = process]
    /\ UNCHANGED <<wc, now, fleetVars, shutVars, pageVars, process, children, calls,
                   last>>

\* process.stdin.write(request_json); process.stdin.flush()
\* raises when process is None or the child has exited (broken pipe)
send_request_write(c) ==
    /\ callers[c].pc = "write"
    /\ LET p == callers[c].process
       IN IF p = 0 \/ Exited(p)
            THEN /\ callers' = [callers EXCEPT ![c].pc = "except",
                                               ![c].err = "write"]
                 /\ UNCHANGED children
            ELSE /\ children' = [children EXCEPT ![p].stdin =
                                     Append(@, callers[c].req)]
                 /\ callers' = [callers EXCEPT ![c].pc = "read"]
    /\ UNCHANGED <<wc, now, fleetVars, shutVars, pageVars, process, calls, last>>

\* response_line = process.stdout.readline(); empty at end of file ->
\* RuntimeError; json.loads raises on a malformed line; else return response
send_request_read(c) ==
    /\ callers[c].pc = "read"
    /\ LET p == callers[c].process
       IN IF children[p].stdout # <<>>
            THEN /\ children' = [children EXCEPT ![p].stdout = Tail(@)]
                 /\ IF Head(children[p].stdout) = Garbage
                      THEN callers' = [callers EXCEPT ![c].pc = "except",
                                                      ![c].err = "json"]
                      ELSE callers' = [callers EXCEPT ![c].pc = "return",
                                          ![c].resp = Head(children[p].stdout)]
            ELSE /\ Exited(p)
                 /\ callers' = [callers EXCEPT ![c].pc = "except",
                                               ![c].err = "empty"]
                 /\ UNCHANGED children
    /\ UNCHANGED <<wc, now, fleetVars, shutVars, pageVars, process, calls, last>>

\* except Exception: if self.process: self.process.terminate()
send_request_except(c) ==
    /\ callers[c].pc = "except"
    /\ IF process # 0
         THEN /\ children' = [children EXCEPT ![process].signalled = TRUE]
              /\ callers' = [callers EXCEPT ![c].pc = "clear"]
         ELSE /\ callers' = [callers EXCEPT ![c].pc = "raised"]
              /\ UNCHANGED children
    /\ UNCHANGED <<wc, now, fleetVars, shutVars, pageVars, process, calls, last>>

\* a variant of send_request_clear: self.process is kept
send_request_keeps_handle(c) ==
    /\ callers[c].pc = "clear"
    /\ callers' = [callers EXCEPT ![c].pc = "raised"]
    /\ UNCHANGED <<wc, now, fleetVars, shutVars, pageVars, process, children, calls,
                   last>>

\* self.process = None; raise
send_request_clear(c) ==
    /\ callers[c].pc = "clear"
    /\ process' = 0
    /\ callers' = [callers EXCEPT ![c].pc = "raised"]
    /\ UNCHANGED <<wc, now, fleetVars, shutVars, pageVars, children, calls, last>>

\* a variant of error_response: "id": None
error_response_without_id(req) == [kind |-> "error -32603", id |-> <<0, 0>>]

\* the JSON-RPC error object handle_request builds in its except branch
error_response(req) == [kind |-> "error -32603", id |-> req]

\* handle_request returns: the response, or the error object
handle_request_return(c) ==
    /\ callers[c].pc \in {"return", "raised"}
    /\ last' = [last EXCEPT ![c] =
            [req |-> callers[c].req,
             resp |-> IF callers[c].pc = "return" THEN callers[c].resp
                      ELSE error_response(callers[c].req),
             err |-> callers[c].err, stale |-> callers[c].stale]]
    /\ callers' = [callers EXCEPT ![c] = IdleCaller]
    /\ UNCHANGED <<wc, now, fleetVars, shutVars, pageVars, process, children, calls>>

\* the child reads one request line and writes one line: the response to
\* that request, or a line that is not JSON
child_respond(p) ==
    /\ children[p].alive
    /\ children[p].stdin # <<>>
    /\ \E line \in {[kind |-> "result", id |-> Head(children[p].stdin)], Garbage} :
          children' = [children EXCEPT ![p].stdin = Tail(@),
                                       ![p].stdout = Append(@, line)]
    /\ UNCHANGED <<wc, now, fleetVars, shutVars, pageVars, process, callers, calls,
                   last>>

\* the child exits, of its own or on the terminate signal
child_exit(p) ==
    /\ children[p].alive
    /\ children' = [children EXCEPT ![p].alive = FALSE]
    /\ UNCHANGED <<wc, now, fleetVars, shutVars, pageVars, process, callers, calls,
                   last>>

\* McpServerWrapper.cleanup, entered: with self.lock: if self.process:
\* self.process.terminate(), and on to self.process.wait(timeout=5)
wrapper_cleanup ==
    /\ wc.pc \in {"idle", "done", "raised"}
    /\ IF process = 0
         THEN /\ wc' = [pc |-> "done", ops |-> <<>>, deadline |-> 0, left |-> process]
              /\ UNCHANGED children
         ELSE /\ children' = [children EXCEPT ![process].signalled = TRUE]
              /\ wc' = [pc |-> "wait", ops |-> <<"terminate">>,
                        deadline |-> now + WaitTimeout, left |-> process]
    /\ UNCHANGED <<now, fleetVars, shutVars, pageVars, process, callers, calls, last>>

\* self.process.wait(timeout=5) returns: the child has exited
wrapper_cleanup_wait_returns ==
    /\ wc.pc = "wait"
    /\ IF process = 0
         THEN wc' = [wc EXCEPT !.pc = "raised"]
         ELSE /\ Exited(process)
              /\ wc' = [wc EXCEPT !.pc = "clear"]
    /\ UNCHANGED <<now, fleetVars, shutVars, pageVars, process, children, callers,
                   calls, last>>

\* a variant of wrapper_cleanup_wait_expires: the kill comes at once
wrapper_cleanup_kill_at_once ==
    /\ wc.pc = "wait"
    /\ process # 0
    /\ children[process].alive
    /\ children' = [children EXCEPT ![process].alive = FALSE,
                                    ![process].killed = TRUE]
    /\ wc' = [wc EXCEPT !.pc = "clear", !.ops = Append(@, "kill")]
    /\ UNCHANGED <<now, fleetVars, shutVars, pageVars, process, callers, calls, last>>

\* the child is still alive when the 5 s are over: except
\* subprocess.TimeoutExpired: self.process.kill()
wrapper_cleanup_wait_expires ==
    /\ wc.pc = "wait"
    /\ process # 0
    /\ children[process].alive
    /\ now' = wc.deadline
    /\ children' = [children EXCEPT ![process].alive = FALSE,
                                    ![process].killed = TRUE]
    /\ wc' = [wc EXCEPT !.pc = "clear", !.ops = Append(@, "kill")]
    /\ UNCHANGED <<fleetVars, shutVars, pageVars, process, callers, calls, last>>

\* self.process = None; the lock is released and cleanup returns
wrapper_cleanup_clear ==
    /\ wc.pc = "clear"
    /\ process' = 0
    /\ wc' = [wc EXCEPT !.pc = "done", !.left = 0]
    /\ UNCHANGED <<now, fleetVars, shutVars, pageVars, children, callers, calls, last>>

NextWrapper ==
    \/ \E c \in Callers : handle_request(c)
    \/ \E c \in Callers : ensure_server_running(c)
    \/ \E c \in Callers : ensure_server_running_return(c)
    \/ \E c \in Callers : send_request_write(c)
    \/ \E c \in Callers : send_request_read(c)
    \/ \E c \in Callers : send_request_except(c)
    \/ \E c \in Callers : send_request_clear(c)
    \/ \E c \in Callers : handle_request_return(c)
    \/ \E p \in 1 .. Len(children) : child_respond(p)
    \/ \E p \in 1 .. Len(children) : child_exit(p)

\* no thread is inside the wrapper: the execution environment hands one
\* event at a time to lambda_handler
Quiet ==
    /\ \A c \in Callers : callers[c].pc = "idle"
    /\ wc.pc \in {"idle", "done", "raised"}

\* lambda_handler: mcp_wrapper.handle_request(request_data), one event at
\* a time
lambda_handler(c) == Quiet /\ handle_request(c)

\* McpServerWrapper.__del__: self.cleanup(), while no request is handled
wrapper_del == Quiet /\ wrapper_cleanup

NextLambda ==
    \/ \E c \in Callers : lambda_handler(c)
    \/ \E c \in Callers : ensure_server_running(c)
    \/ \E c \in Callers : ensure_server_running_return(c)
    \/ \E c \in Callers : send_request_write(c)
    \/ \E c \in Callers : send_request_read(c)
    \/ \E c \in Callers : send_request_except(c)
    \/ \E c \in Callers : send_request_clear(c)
    \/ \E c \in Callers : handle_request_return(c)
    \/ wrapper_del
    \/ wrapper_cleanup_wait_returns
    \/ wrapper_cleanup_wait_expires
    \/ wrapper_cleanup_clear
    \/ \E p \in 1 .. Len(children) : child_respond(p)
    \/ \E p \in 1 .. Len(children) : child_exit(p)

(* ======================================================================= *)
(*               get_full_tools_list (eks-agentcore/agent.py)              *)
(* ======================================================================= *)
\* page i of the tools the server holds
Page(i) == [k \in 1 .. PageSize |-> <<i, k>>]

\* what client.list_tools_sync(pagination_token=tok) answers: page 1 for no
\* token, the page the token names otherwise; the answer carries the token
\* of the next page, or None (0) on the last one -- a server in a token loop
\* names page 1 again after its last page.  Its shape is the server's:
\*   "list"   a list of tools that carries pagination_token
\*   "dict"   a dict with the key 'tools'
\*   "object" not iterable, with .tools and .pagination_token
\*   "none"   None
list_tools_sync(tok) ==
    LET i == IF tok = 0 THEN 1 ELSE tok
        next == IF i < pgServer.npages THEN i + 1
                ELSE IF pgServer.loop THEN 1 ELSE 0
    IN [shape |-> pgServer.shape, tools |-> Page(i), pagination_token |-> next]

IdlePager ==
    [pc |-> "loop", more_tools |-> TRUE, tools |-> <<>>, pagination_token |-> 0,
     iteration |-> 0, sent |-> <<>>, fallbacks |-> 0, result |-> <<>>]

PageServers ==
    [npages : 1 .. MaxPages, loop : BOOLEAN,
     shape : {"list", "dict", "object", "none"},
     failAt : {0, 1, 2, max_iterations}, fallbackRaises : BOOLEAN]

\* the environment variables looked at: the region and the log-verbosity
\* variables the agent sets, and one other
EnvKeys ==
    {"AWS_DEFAULT_REGION", "AWS_REGION", "PYTHONWARNINGS", "LOGURU_LEVEL",
     "LOG_LEVEL", "HOME"}

RegionKeys == {"AWS_DEFAULT_REGION", "AWS_REGION"}

LogKeys == {"PYTHONWARNINGS", "LOGURU_LEVEL", "LOG_LEVEL"}

\* the value of a variable that is not in an environment
Unset == "<unset>"

\* the values the agent passes to setdefault
DefaultValue(k) ==
    IF k \in RegionKeys THEN "us-east-1"
    ELSE IF k = "PYTHONWARNINGS" THEN "ignore"
    ELSE "ERROR"

\* d.setdefault(k, v) for every k of ks
setdefault(d, ks) ==
    [k \in EnvKeys |-> IF k \in ks /\ d[k] = Unset THEN DefaultValue(k) ELSE d[k]]

\* d.update(e)
update(d, e) == [k \in EnvKeys |-> IF e[k] # Unset THEN e[k] ELSE d[k]]

\* no environment is being built
NoEnvironment ==
    [pc |-> "none", aws |-> FALSE,
     environ |-> [k \in EnvKeys |-> Unset], env |-> [k \in EnvKeys |-> Unset],
     child |-> [k \in EnvKeys |-> Unset]]

\* the main thread is not followed
\*   stack   : its frames, the innermost last
\*   signals : SIGINT/SIGTERM delivered so far
\*   passed  : invocations of cleanup_all_resources that got past the guard
\*   threads : calls of cleanup_thread.start()
\*   raced   : a signal arrived between the test of _cleanup_done and its
\*             assignment
NoSignals ==
    [stack |-> <<>>, signals |-> 0, passed |-> 0, threads |-> 0, raced |-> FALSE]

\* no call of _get_tools_from_client is in progress
NoListing ==
    [pc |-> "none", server_name |-> "",
     tools |-> [type |-> "None", has_tools |-> FALSE, items |-> <<>>],
     result |-> <<>>, raised |-> FALSE]

InitPages ==
    /\ pgServer \in PageServers
    /\ pg = IdlePager
    /\ lt = NoListing
    /\ ec = NoEnvironment
    /\ sg = NoSignals

\* a variant of loop_continues: no cap on the iterations
loop_continues_unbounded == pg.more_tools

\* while more_tools and iteration < max_iterations
loop_continues == pg.more_tools /\ pg.iteration < max_iterations

\* one turn of the while loop: the call, and the three shapes of answer
get_full_tools_list_iteration ==
    /\ pg.pc = "loop"
    /\ loop_continues
    /\ LET it == pg.iteration + 1
           r == list_tools_sync(pg.pagination_token)
           sent == Append(pg.sent, pg.pagination_token)
       IN IF pgServer.failAt = it
            THEN \* list_tools_sync raises: except Exception
                 pg' = [pg EXCEPT !.iteration = it, !.sent = sent,
                                  !.pc = "fallback"]
            ELSE IF r.shape \in {"list", "dict"}
            THEN \* hasattr(tmp_tools, '__iter__'): extend with its elements
                 \* (of a dict, its keys)
                 pg' = [pg EXCEPT !.iteration = it, !.sent = sent,
                                  !.tools = @ \o (IF r.shape = "list" THEN r.tools
                                                  ELSE <<"tools">>),
                                  !.more_tools = FALSE]
            ELSE IF r.shape = "object"
            THEN \* hasattr(tmp_tools, 'tools')
                 pg' = [pg EXCEPT !.iteration = it, !.sent = sent,
                                  !.tools = @ \o r.tools,
                                  !.pagination_token =
                                       IF r.pagination_token # 0
                                       THEN r.pagination_token ELSE @,
                                  !.more_tools = r.pagination_token # 0]
            ELSE \* None: nothing to add
                 pg' = [pg EXCEPT !.iteration = it, !.sent = sent,
                                  !.more_tools = FALSE]
    /\ UNCHANGED <<now, fleetVars, shutVars, wrapVars, pgServer, lt, ec, sg>>

\* the loop ends: return tools
get_full_tools_list_return ==
    /\ pg.pc = "loop"
    /\ ~loop_continues
    /\ pg' = [pg EXCEPT !.pc = "done", !.result = pg.tools]
    /\ UNCHANGED <<now, fleetVars, shutVars, wrapVars, pgServer, lt, ec, sg>>

\* except Exception: simple_tools = client.list_tools_sync(); a list is
\* returned as it is, of a dict its 'tools', None gives [], any other
\* object is wrapped in a list; if this call raises too: return []
get_full_tools_list_fallback ==
    /\ pg.pc = "fallback"
    /\ LET r == list_tools_sync(0)
       IN pg' = [pg EXCEPT
             !.pc = "done",
             !.fallbacks = @ + 1,
             !.sent = Append(@, 0),
             !.result = IF pgServer.fallbackRaises \/ r.shape = "none" THEN <<>>
                        ELSE IF r.shape \in {"list", "dict"} THEN r.tools
                        ELSE <<"simple_tools">>]
    /\ UNCHANGED <<now, fleetVars, shutVars, wrapVars, pgServer, lt, ec, sg>>

NextPages ==
    \/ get_full_tools_list_iteration
    \/ get_full_tools_list_return
    \/ get_full_tools_list_fallback

\* get_full_tools_list is not running
InitNoPages ==
    /\ pgServer = [npages |-> 1, loop |-> FALSE, shape |-> "list", failAt |-> 0,
                   fallbackRaises |-> FALSE]
    /\ pg = IdlePager
    /\ lt = NoListing
    /\ ec = NoEnvironment
    /\ sg = NoSignals

(* ------------------------------- Init ---------------------------------- *)
NoCleanupThread ==
    [pc |-> "none", snapshot |-> <<>>, ci |-> 0, joinStart |-> 0, after |-> "gateway"]
\* ops: what the worker has called so far on the process and on the client
NoCleanupWorker == [pc |-> "none", finishAt |-> Never, ops |-> <<>>]

InitFleetWith(B) ==
    /\ servers \in [Servers -> B]
    /\ initPc = "idle"
    /\ idx = 0
    /\ joinStart = 0
    /\ joinDeadline = 0
    /\ initStart = 0
    /\ initEnd = Never
    /\ wk = [s \in Servers |-> NoWorker]
    /\ mcp_clients = <<>>
    /\ mcp_tools = <<>>
    /\ attempted = {}
    /\ timedOut = {}
    /\ raisedOut = FALSE
    /\ aws_mcp_manager = "None"
    /\ proc = [s \in Servers |-> "none"]

InitShutdownWith(G) ==
    /\ hostExited = FALSE
    /\ mcp_client \in G
    /\ cleanup_done = FALSE
    /\ cleanup_registered = FALSE
    /\ coordPc = "idle"
    /\ coordStart = 0
    /\ ct = NoCleanupThread
    /\ cw = [s \in Servers |-> NoCleanupWorker]
    /\ stopped = {}
    /\ second = {}

Init ==
    /\ now = 0
    /\ InitFleetWith(Behaviours)
    /\ InitShutdownWith({"None"})
    /\ InitWrapper
    /\ InitNoPages

(* ------------------- initialize_aws_mcp_clients ------------------------ *)
\* init_aws_mcp: aws_mcp_manager = AWSMCPManager(...);
\*               aws_mcp_manager.initialize_aws_mcp_clients()
init_aws_mcp ==
    /\ ~hostExited
    /\ initPc = "idle"
    /\ aws_mcp_manager' = "mgr"
    /\ initPc' = "start"
    /\ UNCHANGED <<others, now, servers, idx, joinStart, joinDeadline, initStart,
                   initEnd, wk, mcp_clients, mcp_tools, attempted, timedOut,
                   raisedOut, proc>>

\* servers = self.load_aws_mcp_config(); if not servers: return
initialize_aws_mcp_clients ==
    /\ ~hostExited
    /\ initPc = "start"
    /\ initStart' = now
    /\ IF NumServers = 0
         THEN initPc' = "done" /\ initEnd' = now
         ELSE initPc' = "loop" /\ initEnd' = initEnd
    /\ UNCHANGED <<others, now, servers, idx, joinStart, joinDeadline, wk,
                   mcp_clients, mcp_tools, attempted, timedOut, raisedOut,
                   aws_mcp_manager, proc>>

\* for server_name, server_config in enabled_servers.items(): next element,
\* or the end of the loop
initialize_loop ==
    /\ ~hostExited
    /\ initPc = "loop"
    /\ LET rest == {s \in enabled_servers : s > idx}
       IN IF rest = {}
            THEN /\ initPc' = "done"
                 /\ initEnd' = now
                 /\ idx' = idx
            ELSE /\ initPc' = "single"
                 /\ initEnd' = initEnd
                 /\ idx' = CHOOSE s \in rest : \A t \in rest : s <= t
    /\ UNCHANGED <<others, now, servers, joinStart, joinDeadline, initStart, wk,
                   mcp_clients, mcp_tools, attempted, timedOut, raisedOut,
                   aws_mcp_manager, proc>>

\* _initialize_single_mcp_client up to init_thread.start():
\* no command -> return; otherwise the worker thread is started, and the
\* worker runs up to its call of client.start(), which spawns the child
initialize_single_mcp_client ==
    /\ ~hostExited
    /\ initPc = "single"
    /\ attempted' = attempted \cup {idx}
    /\ IF servers[idx].cfg = "nocommand"
         THEN /\ initPc' = "loop"
              /\ UNCHANGED <<wk, joinStart, joinDeadline, proc>>
         ELSE IF servers[idx].start = "nothread"
         THEN \* Thread.start() raises RuntimeError
              /\ initPc' = "except"
              /\ UNCHANGED <<wk, joinStart, joinDeadline, proc>>
         ELSE /\ initPc' = "join"
              /\ joinStart' = now
              /\ joinDeadline' = now + timeout_for(idx)
              /\ wk' = [wk EXCEPT ![idx] =
                    [pc |-> "starting",
                     finishAt |-> IF servers[idx].start = "hang" THEN Never
                                  ELSE IF servers[idx].start = "raise" THEN now
                                  ELSE now + servers[idx].dur,
                     tools |-> <<>>]]
              /\ proc' = [proc EXCEPT ![idx] =
                    IF servers[idx].start = "raise" THEN "none" ELSE "running"]
    /\ UNCHANGED <<others, now, servers, idx, initStart, initEnd, mcp_clients,
                   mcp_tools, timedOut, raisedOut, aws_mcp_manager>>

\* a variant of initialize_loop_except: the exception leaves the loop
initialize_loop_reraise ==
    /\ ~hostExited
    /\ initPc = "except"
    /\ initPc' = "done"
    /\ initEnd' = now
    /\ raisedOut' = TRUE
    /\ UNCHANGED <<others, now, servers, idx, joinStart, joinDeadline, initStart,
                   wk, mcp_clients, mcp_tools, attempted, timedOut,
                   aws_mcp_manager, proc>>

\* except Exception as e: print(...)   -- the loop goes on
initialize_loop_except ==
    /\ ~hostExited
    /\ initPc = "except"
    /\ initPc' = "loop"
    /\ UNCHANGED <<others, now, servers, idx, joinStart, joinDeadline, initStart,
                   initEnd, wk, mcp_clients, mcp_tools, attempted, timedOut,
                   raisedOut, aws_mcp_manager, proc>>

\* init_thread.join(timeout=timeout) returns because the thread ended
join_returns ==
    /\ ~hostExited
    /\ initPc = "join"
    /\ ~is_alive(idx)
    /\ initPc' = "loop"
    /\ UNCHANGED <<others, now, servers, idx, joinStart, joinDeadline, initStart,
                   initEnd, wk, mcp_clients, mcp_tools, attempted, timedOut,
                   raisedOut, aws_mcp_manager, proc>>

\* init_thread.join(timeout=timeout) expires; if init_thread.is_alive(): return
join_times_out ==
    /\ ~hostExited
    /\ initPc = "join"
    /\ is_alive(idx)
    /\ now >= joinDeadline
    /\ timedOut' = timedOut \cup {idx}
    /\ initPc' = "loop"
    /\ UNCHANGED <<others, now, servers, idx, joinStart, joinDeadline, initStart,
                   initEnd, wk, mcp_clients, mcp_tools, attempted, raisedOut,
                   aws_mcp_manager, proc>>

(* -------------------------- init_client_worker ------------------------- *)
\* client.start() returns or raises (except Exception: return False)
worker_start_returns(s) ==
    /\ ~hostExited
    /\ wk[s].pc = "starting"
    /\ wk[s].finishAt # Never
    /\ now >= wk[s].finishAt
    /\ wk' = [wk EXCEPT ![s].pc =
                 IF servers[s].start = "raise" THEN "failed" ELSE "listing"]
    /\ UNCHANGED <<others, now, servers, initPc, idx, joinStart, joinDeadline,
                   initStart, initEnd, mcp_clients, mcp_tools, attempted,
                   timedOut, raisedOut, aws_mcp_manager, proc>>

\* a tool as the server returns it: _original_name and _server_name not
\* yet set (0 and "")
RawTool(k) == [name |-> k, _original_name |-> 0, _server_name |-> ""]

\* a tool object without a 'name' attribute (name 0)
NamelessTool == [name |-> 0, _original_name |-> 0, _server_name |-> ""]

\* hasattr(tool, 'name')
has_name(tool) == tool.name # 0

\* a variant of annotate: the server's position is put in front of the name
annotate_renaming(tools_list, server_name) ==
    [i \in 1 .. Len(tools_list) |->
        IF has_name(tools_list[i])
        THEN [name |-> tools_list[i].name + ToolsPerServer,
              _original_name |-> tools_list[i].name,
              _server_name |-> server_name]
        ELSE tools_list[i]]

\* for tool in tools_list: if hasattr(tool, 'name'):
\* tool._original_name = tool.name; tool._server_name = server_name;
\* return tools_list
annotate(tools_list, server_name) ==
    [i \in 1 .. Len(tools_list) |->
        IF has_name(tools_list[i])
        THEN [tools_list[i] EXCEPT !._original_name = tools_list[i].name,
                                   !._server_name = server_name]
        ELSE tools_list[i]]

\* a variant of tools_from_response: an unexpected type is iterated like a
\* list
tools_from_response_any_iterable(tools, server_name) ==
    IF tools.type \in {"list", "other"} THEN annotate(tools.items, server_name)
    ELSE IF tools.type = "dict" /\ tools.has_tools
    THEN annotate(tools.items, server_name)
    ELSE <<>>

\* the body of _get_tools_from_client on what list_tools_sync gave:
\*   type "raise" : list_tools_sync raised; except Exception: return []
\*   type "dict"  : 'tools' in tools and tools['tools'], else return []
\*   type "list"  : the list itself (an empty one gives [])
\*   type "None", "other" : return []
\* items is the list, the dict's 'tools' entry, or the payload of the object
tools_from_response(tools, server_name) ==
    IF tools.type = "raise" THEN <<>>
    ELSE IF tools.type = "dict"
    THEN IF tools.has_tools /\ tools.items # <<>>
         THEN annotate(tools.items, server_name) ELSE <<>>
    ELSE IF tools.type = "list"
    THEN IF tools.items # <<>> THEN annotate(tools.items, server_name) ELSE <<>>
    ELSE <<>>

\* client.list_tools_sync() of server s: a bare list of its tools, or an
\* exception
list_response(s) ==
    IF servers[s].list = "tools"
    THEN [type |-> "list", has_tools |-> FALSE,
          items |-> [k \in 1 .. ToolsPerServer |-> RawTool(k)]]
    ELSE [type |-> "raise", has_tools |-> FALSE, items |-> <<>>]

\* self._get_tools_from_client(client, server_name): the tools, or [] when
\* list_tools_sync raises
get_tools_from_client(s) == tools_from_response(list_response(s), ServerName(s))

\* tools = self._get_tools_from_client(client, server_name)
worker_get_tools(s) ==
    /\ ~hostExited
    /\ wk[s].pc = "listing"
    /\ servers[s].list # "hang"
    /\ wk' = [wk EXCEPT ![s].pc = "write_clients",
                        ![s].tools = get_tools_from_client(s)]
    /\ UNCHANGED <<others, now, servers, initPc, idx, joinStart, joinDeadline,
                   initStart, initEnd, mcp_clients, mcp_tools, attempted,
                   timedOut, raisedOut, aws_mcp_manager, proc>>

\* self.mcp_clients[server_name] = client
worker_write_clients(s) ==
    /\ ~hostExited
    /\ wk[s].pc = "write_clients"
    /\ mcp_clients' = dict_set(mcp_clients, s)
    /\ wk' = [wk EXCEPT ![s].pc = "write_tools"]
    /\ UNCHANGED <<others, now, servers, initPc, idx, joinStart, joinDeadline,
                   initStart, initEnd, mcp_tools, attempted, timedOut, raisedOut,
                   aws_mcp_manager, proc>>

\* a variant of worker_extend_tools: the worker ends without extending
worker_forgets_tools(s) ==
    /\ ~hostExited
    /\ wk[s].pc = "write_tools"
    /\ wk' = [wk EXCEPT ![s].pc = "done"]
    /\ UNCHANGED <<others, now, servers, initPc, idx, joinStart, joinDeadline,
                   initStart, initEnd, mcp_clients, mcp_tools, attempted,
                   timedOut, raisedOut, aws_mcp_manager, proc>>

\* self.mcp_tools.extend(tools); return True
worker_extend_tools(s) ==
    /\ ~hostExited
    /\ wk[s].pc = "write_tools"
    /\ mcp_tools' = mcp_tools \o wk[s].tools
    /\ wk' = [wk EXCEPT ![s].pc = "done"]
    /\ UNCHANGED <<others, now, servers, initPc, idx, joinStart, joinDeadline,
                   initStart, initEnd, mcp_clients, attempted, timedOut,
                   raisedOut, aws_mcp_manager, proc>>

\* get_all_aws_tools: return self.mcp_tools
get_all_aws_tools == mcp_tools

\* manage_mcp_config(action="aws_status"): nothing without a manager;
\* otherwise one line for each key of aws_mcp_manager.mcp_clients, with
\* the number of tools of get_all_aws_tools() that carry its _server_name
aws_status ==
    IF aws_mcp_manager # "mgr" THEN <<>>
    ELSE [i \in 1 .. Len(mcp_clients) |->
            [name |-> ServerName(mcp_clients[i]),
             tools |-> Cardinality({j \in 1 .. Len(get_all_aws_tools) :
                          get_all_aws_tools[j]._server_name =
                              ServerName(mcp_clients[i])})]]

\* manage_mcp_config(action="list_servers"): for each server of the
\* configuration file, Enabled or Disabled by its 'disabled' entry
list_servers ==
    [s \in Servers |->
        [name |-> ServerName(s),
         status |-> IF servers[s].cfg = "disabled" THEN "Disabled" ELSE "Enabled"]]

\* what manage_mcp_config says of server s over all its actions: listed
\* under "Active Servers", or else Enabled or Disabled as configured; no
\* action prints a reason
manage_mcp_config(s) ==
    [status |-> IF \E i \in 1 .. Len(aws_status) : aws_status[i].name = ServerName(s)
                THEN "active"
                ELSE IF list_servers[s].status = "Disabled" THEN "disabled"
                ELSE "enabled",
     reason |-> ""]

\* the child process of a server whose worker has finished exits on its own
server_process_exits(s) ==
    /\ ~hostExited
    /\ wk[s].pc = "done"
    /\ proc[s] = "running"
    /\ proc' = [proc EXCEPT ![s] = "exited"]
    /\ UNCHANGED <<others, now, servers, initPc, idx, joinStart, joinDeadline,
                   initStart, initEnd, wk, mcp_clients, mcp_tools, attempted,
                   timedOut, raisedOut, aws_mcp_manager>>

(* ------------------------ cleanup_all_resources ------------------------ *)
\* a variant of coord_deadline: a 30 s join
coord_deadline_30s == coordStart + 30000

\* the instant cleanup_thread.join(timeout=3.0) expires
coord_deadline == coordStart + CoordinatorTimeout

\* the instant cleanup_thread.join(timeout=timeout) of the current client expires
client_deadline == ct.joinStart + ClientCleanupTimeout

\* the client AWSMCPManager.cleanup is at
CurrentClient == ct.snapshot[ct.ci]

\* a variant of cleanup_all_resources: no test of _cleanup_done
cleanup_all_resources_unguarded ==
    /\ ~hostExited
    /\ coordPc \in {"idle", "returned"}
    /\ coordPc' = "set"
    /\ second' = IF coordPc = "returned"
                   THEN second \cup {"cleanup_all_resources"} ELSE second
    /\ UNCHANGED <<wrapVars, pageVars, now, fleetVars, hostExited, mcp_client, cleanup_done,
                   cleanup_registered, coordStart, ct, cw, stopped>>

\* cleanup_all_resources is entered, for the first time or again after
\* it has returned (the signal handler, emergency_cleanup, the end of main):
\* if _cleanup_done: return
cleanup_all_resources ==
    /\ ~hostExited
    /\ coordPc \in {"idle", "returned"}
    /\ coordPc' = IF cleanup_done THEN "returned" ELSE "set"
    /\ second' = IF coordPc = "returned"
                   THEN second \cup {"cleanup_all_resources"} ELSE second
    /\ UNCHANGED <<wrapVars, pageVars, now, fleetVars, hostExited, mcp_client, cleanup_done,
                   cleanup_registered, coordStart, ct, cw, stopped>>

\* _cleanup_done = True; cleanup_thread.start(); cleanup_thread.join(timeout=3.0)
cleanup_all_resources_start ==
    /\ ~hostExited
    /\ coordPc = "set"
    /\ cleanup_done' = TRUE
    /\ ct' = [ct EXCEPT !.pc = "begin"]
    /\ coordStart' = now
    /\ coordPc' = "join"
    /\ UNCHANGED <<second, wrapVars, pageVars, now, fleetVars, hostExited, mcp_client, cleanup_registered,
                   cw, stopped>>

\* the join returns because the cleanup thread ended: "All resources cleaned up"
cleanup_join_returns ==
    /\ ~hostExited
    /\ coordPc = "join"
    /\ ct.pc = "done"
    /\ coordPc' = "returned"
    /\ UNCHANGED <<second, wrapVars, pageVars, now, fleetVars, hostExited, mcp_client, cleanup_done,
                   cleanup_registered, coordStart, ct, cw, stopped>>

\* the join expires; if cleanup_thread.is_alive(): os._exit(0)
cleanup_join_times_out ==
    /\ ~hostExited
    /\ coordPc = "join"
    /\ ct.pc # "done"
    /\ now >= coord_deadline
    /\ coordPc' = "exited"
    /\ hostExited' = TRUE
    /\ UNCHANGED <<second, wrapVars, pageVars, now, fleetVars, mcp_client, cleanup_done, cleanup_registered,
                   coordStart, ct, cw, stopped>>

\* the caller of cleanup_all_resources ends the process: main's finally
\* block (os._exit(0)), reached from the signal handler through sys.exit(0)
main_exit ==
    /\ ~hostExited
    /\ coordPc = "returned"
    /\ hostExited' = TRUE
    /\ UNCHANGED <<second, wrapVars, pageVars, now, fleetVars, mcp_client, cleanup_done, cleanup_registered,
                   coordPc, coordStart, ct, cw, stopped>>

(* ------------------------- cleanup_with_timeout ------------------------ *)
\* if aws_mcp_manager: aws_mcp_manager.cleanup()
cleanup_with_timeout ==
    /\ ~hostExited
    /\ ct.pc = "begin"
    /\ ct' = [ct EXCEPT !.pc = IF aws_mcp_manager = "mgr" THEN "mgr_guard"
                               ELSE "gateway",
                        !.after = "gateway"]
    /\ UNCHANGED <<second, wrapVars, pageVars, now, fleetVars, hostExited, mcp_client, cleanup_done,
                   cleanup_registered, coordPc, coordStart, cw, stopped>>

\* AWSMCPManager.__exit__: self.cleanup(), called on the manager once
\* cleanup_all_resources has returned
manager_exit ==
    /\ ~hostExited
    /\ coordPc = "returned"
    /\ ct.pc = "done"
    /\ aws_mcp_manager = "mgr"
    /\ ct' = [ct EXCEPT !.pc = "mgr_guard", !.after = "done"]
    /\ second' = IF cleanup_registered THEN second \cup {"cleanup"} ELSE second
    /\ UNCHANGED <<wrapVars, pageVars, now, fleetVars, hostExited, mcp_client, cleanup_done,
                   cleanup_registered, coordPc, coordStart, cw, stopped>>

\* AWSMCPManager.cleanup: if self._cleanup_registered: return;
\* self._cleanup_registered = True; ... list(self.mcp_clients.items())
manager_cleanup ==
    /\ ~hostExited
    /\ ct.pc = "mgr_guard"
    /\ IF cleanup_registered
         THEN /\ ct' = [ct EXCEPT !.pc = ct.after]
              /\ UNCHANGED cleanup_registered
         ELSE /\ cleanup_registered' = TRUE
              /\ ct' = [ct EXCEPT !.pc = "mgr_loop", !.snapshot = mcp_clients,
                                  !.ci = 0]
    /\ UNCHANGED <<second, wrapVars, pageVars, now, fleetVars, hostExited, mcp_client, cleanup_done, coordPc,
                   coordStart, cw, stopped>>

\* for server_name, client in <snapshot>: cleanup_client_with_timeout(...)
\* up to cleanup_thread.start(); after the last client, on to the clears
manager_cleanup_loop ==
    /\ ~hostExited
    /\ ct.pc = "mgr_loop"
    /\ IF ct.ci < Len(ct.snapshot)
         THEN /\ ct' = [ct EXCEPT !.pc = "mgr_join", !.ci = ct.ci + 1,
                                  !.joinStart = now]
              /\ cw' = [cw EXCEPT ![ct.snapshot[ct.ci + 1]] =
                            [pc |-> "begin", finishAt |-> Never, ops |-> <<>>]]
         ELSE /\ ct' = [ct EXCEPT !.pc = "mgr_clear_clients"]
              /\ UNCHANGED cw
    /\ UNCHANGED <<second, wrapVars, pageVars, now, fleetVars, hostExited, mcp_client, cleanup_done,
                   cleanup_registered, coordPc, coordStart, stopped>>

\* cleanup_thread.join(timeout=timeout) returns: the worker ended
manager_join_returns ==
    /\ ~hostExited
    /\ ct.pc = "mgr_join"
    /\ cw[CurrentClient].pc = "done"
    /\ ct' = [ct EXCEPT !.pc = "mgr_loop"]
    /\ UNCHANGED <<second, wrapVars, pageVars, now, fleetVars, hostExited, mcp_client, cleanup_done,
                   cleanup_registered, coordPc, coordStart, cw, stopped>>

\* a variant of manager_join_times_out: the timeout ends the loop and
\* cleanup returns
manager_join_times_out_gives_up ==
    /\ ~hostExited
    /\ ct.pc = "mgr_join"
    /\ cw[CurrentClient].pc # "done"
    /\ now >= client_deadline
    /\ ct' = [ct EXCEPT !.pc = ct.after]
    /\ UNCHANGED <<second, wrapVars, pageVars, now, fleetVars, hostExited, mcp_client, cleanup_done,
                   cleanup_registered, coordPc, coordStart, cw, stopped>>

\* the join expires: "cleanup timed out after 2.0s", return False
manager_join_times_out ==
    /\ ~hostExited
    /\ ct.pc = "mgr_join"
    /\ cw[CurrentClient].pc # "done"
    /\ now >= client_deadline
    /\ ct' = [ct EXCEPT !.pc = "mgr_loop"]
    /\ UNCHANGED <<second, wrapVars, pageVars, now, fleetVars, hostExited, mcp_client, cleanup_done,
                   cleanup_registered, coordPc, coordStart, cw, stopped>>

\* self.mcp_clients.clear()
manager_clear_clients ==
    /\ ~hostExited
    /\ ct.pc = "mgr_clear_clients"
    /\ mcp_clients' = <<>>
    /\ ct' = [ct EXCEPT !.pc = "mgr_clear_tools"]
    /\ UNCHANGED <<second, wrapVars, pageVars, now, servers, initPc, idx, joinStart, joinDeadline, initStart,
                   initEnd, wk, mcp_tools, attempted, timedOut, raisedOut,
                   aws_mcp_manager, proc, hostExited, mcp_client, cleanup_done,
                   cleanup_registered, coordPc, coordStart, cw, stopped>>

\* self.mcp_tools.clear()
manager_clear_tools ==
    /\ ~hostExited
    /\ ct.pc = "mgr_clear_tools"
    /\ mcp_tools' = <<>>
    /\ ct' = [ct EXCEPT !.pc = ct.after]
    /\ UNCHANGED <<second, wrapVars, pageVars, now, servers, initPc, idx, joinStart, joinDeadline, initStart,
                   initEnd, wk, mcp_clients, attempted, timedOut, raisedOut,
                   aws_mcp_manager, proc, hostExited, mcp_client, cleanup_done,
                   cleanup_registered, coordPc, coordStart, cw, stopped>>

\* if mcp_client: mcp_client.stop(None, None, None), which returns, raises
\* (caught) or never returns
gateway_stop ==
    /\ ~hostExited
    /\ ct.pc = "gateway"
    /\ IF mcp_client = "None"
         THEN ct' = [ct EXCEPT !.pc = "done"] /\ UNCHANGED stopped
         ELSE \E b \in {"ok", "raise", "hang"} :
                /\ ct' = [ct EXCEPT !.pc = IF b = "hang" THEN "gateway_hung"
                                           ELSE "done"]
                /\ stopped' = stopped \cup {0}
    /\ UNCHANGED <<second, wrapVars, pageVars, now, fleetVars, hostExited, mcp_client, cleanup_done,
                   cleanup_registered, coordPc, coordStart, cw>>

(* ---------------------------- cleanup_worker --------------------------- *)
\* the process is looked up on the client; if it is found and still runs:
\* process.terminate(); time.sleep(0.1).  The child exits on the signal
\* or ignores it.
cleanup_worker_terminate(s) ==
    /\ ~hostExited
    /\ cw[s].pc = "begin"
    /\ \E found \in BOOLEAN :
        IF found /\ proc[s] = "running"
          THEN /\ cw' = [cw EXCEPT ![s] = [pc |-> "sleep",
                                           finishAt |-> now + TerminateGrace,
                                           ops |-> <<"terminate">>]]
               /\ \E dies \in BOOLEAN :
                    proc' = [proc EXCEPT ![s] = IF dies THEN "exited" ELSE "running"]
          ELSE /\ cw' = [cw EXCEPT ![s].pc = "stop"]
               /\ UNCHANGED proc
    /\ UNCHANGED <<wrapVars, pageVars, now, servers, initPc, idx, joinStart, joinDeadline, initStart,
                   initEnd, wk, mcp_clients, mcp_tools, attempted, timedOut,
                   raisedOut, aws_mcp_manager, shutVarsButCw>>

\* the sleep is over: if process.poll() is None: process.kill()
cleanup_worker_kill(s) ==
    /\ ~hostExited
    /\ cw[s].pc = "sleep"
    /\ now >= cw[s].finishAt
    /\ IF proc[s] = "running"
         THEN /\ proc' = [proc EXCEPT ![s] = "killed"]
              /\ cw' = [cw EXCEPT ![s].pc = "stop", ![s].ops = Append(@, "kill")]
         ELSE /\ UNCHANGED proc
              /\ cw' = [cw EXCEPT ![s].pc = "stop"]
    /\ UNCHANGED <<wrapVars, pageVars, now, servers, initPc, idx, joinStart, joinDeadline, initStart,
                   initEnd, wk, mcp_clients, mcp_tools, attempted, timedOut,
                   raisedOut, aws_mcp_manager, shutVarsButCw>>

\* a variant of cleanup_worker_stop: the process is terminated once more
\* after the client was stopped
cleanup_worker_stop_then_terminate(s) ==
    /\ ~hostExited
    /\ cw[s].pc = "stop"
    /\ \E b \in {"ok", "raise", "hang"} :
        /\ cw' = [cw EXCEPT ![s].pc = IF b = "hang" THEN "hung" ELSE "done",
                            ![s].ops = @ \o <<"stop", "terminate">>]
        /\ stopped' = stopped \cup {s}
    /\ UNCHANGED <<second, wrapVars, pageVars, now, fleetVars, hostExited, mcp_client, cleanup_done,
                   cleanup_registered, coordPc, coordStart, ct>>

\* client.stop(None, None, None): returns, raises (caught) or never returns
cleanup_worker_stop(s) ==
    /\ ~hostExited
    /\ cw[s].pc = "stop"
    /\ \E b \in {"ok", "raise", "hang"} :
        /\ cw' = [cw EXCEPT ![s].pc = IF b = "hang" THEN "hung" ELSE "done",
                            ![s].ops = Append(@, "stop")]
        /\ stopped' = stopped \cup {s}
    /\ UNCHANGED <<second, wrapVars, pageVars, now, fleetVars, hostExited, mcp_client, cleanup_done,
                   cleanup_registered, coordPc, coordStart, ct>>

(* ------------------------------- time ---------------------------------- *)
\* the worker of s can take a step at this instant
WorkerReady(s) ==
    \/ wk[s].pc = "starting" /\ wk[s].finishAt # Never /\ now >= wk[s].finishAt
    \/ wk[s].pc = "listing" /\ servers[s].list # "hang"
    \/ wk[s].pc \in {"write_clients", "write_tools"}

\* the initializing thread can take a step at this instant
InitReady ==
    \/ initPc \in {"idle", "start", "loop", "single", "except"}
    \/ initPc = "join" /\ (~is_alive(idx) \/ now >= joinDeadline)

\* the thread in cleanup_all_resources can take a step at this instant
\* (entering cleanup_all_resources is not a step that has to happen)
CoordReady ==
    \/ coordPc \in {"set", "returned"}
    \/ coordPc = "join" /\ (ct.pc = "done" \/ now >= coord_deadline)

\* the cleanup_with_timeout thread can take a step at this instant
CleanupThreadReady ==
    \/ ct.pc \in {"begin", "mgr_guard", "mgr_loop", "mgr_clear_clients",
                  "mgr_clear_tools", "gateway"}
    \/ ct.pc = "mgr_join" /\ (cw[CurrentClient].pc = "done" \/ now >= client_deadline)

\* the cleanup_worker of s can take a step at this instant
CleanupWorkerReady(s) ==
    \/ cw[s].pc \in {"begin", "stop"}
    \/ cw[s].pc = "sleep" /\ now >= cw[s].finishAt

\* instants at which a blocked call returns
Events ==
    {wk[s].finishAt : s \in {t \in Servers : wk[t].pc = "starting"}}
    \cup (IF initPc = "join" THEN {joinDeadline} ELSE {})
    \cup (IF coordPc = "join" THEN {coord_deadline} ELSE {})
    \cup (IF ct.pc = "mgr_join" THEN {client_deadline} ELSE {})
    \cup {cw[s].finishAt : s \in {t \in Servers : cw[t].pc = "sleep"}}

Min(S) == CHOOSE x \in S : \A y \in S : x <= y

\* every thread is blocked: the clock moves to the next instant at which
\* one of them can go on
Tick ==
    /\ ~hostExited
    /\ ~InitReady
    /\ ~CoordReady
    /\ ~CleanupThreadReady
    /\ \A s \in Servers : ~WorkerReady(s) /\ ~CleanupWorkerReady(s)
    /\ LET ev == {t \in Events : t > now}
       IN /\ ev # {}
          /\ now' = Min(ev)
    /\ UNCHANGED <<fleetVars, shutVars, wrapVars, pageVars>>

(* ---------------------------- specification ---------------------------- *)
NextFleet ==
    \/ init_aws_mcp
    \/ initialize_aws_mcp_clients
    \/ initialize_loop
    \/ initialize_single_mcp_client
    \/ initialize_loop_except
    \/ join_returns
    \/ join_times_out
    \/ \E s \in Servers : worker_start_returns(s)
    \/ \E s \in Servers : worker_get_tools(s)
    \/ \E s \in Servers : worker_write_clients(s)
    \/ \E s \in Servers : worker_extend_tools(s)

NextShutdown ==
    \/ cleanup_all_resources
    \/ cleanup_all_resources_start
    \/ cleanup_join_returns
    \/ cleanup_join_times_out
    \/ main_exit
    \/ cleanup_with_timeout
    \/ manager_cleanup
    \/ manager_cleanup_loop
    \/ manager_join_returns
    \/ manager_join_times_out
    \/ manager_clear_clients
    \/ manager_clear_tools
    \/ gateway_stop
    \/ \E s \in Servers : cleanup_worker_terminate(s)
    \/ \E s \in Servers : cleanup_worker_kill(s)
    \/ \E s \in Servers : cleanup_worker_stop(s)

\* fleet startup alone: cleanup_all_resources is never called
Next == NextFleet \/ Tick

Spec == Init /\ [][Next]_vars

\* fleet startup, and servers whose process exits once they are registered
NextCatalog ==
    \/ Next
    \/ \E s \in Servers : server_process_exits(s)

SpecCatalog == Init /\ [][NextCatalog]_vars

\* startup and shutdown: cleanup_all_resources is called at any time
\* (SIGINT/SIGTERM, or the end of main), with fewer kinds of server
ShutdownBehaviours ==
    {[cfg |-> "enabled", start |-> "ok", dur |-> d, list |-> "tools"] : d \in {50, 5000}}
    \cup {[cfg |-> "enabled", start |-> st, dur |-> 50, list |-> "tools"] :
            st \in {"nothread", "hang"}}

InitShutdown ==
    /\ now = 0
    /\ InitFleetWith(ShutdownBehaviours)
    /\ InitShutdownWith({"None", "started"})
    /\ InitWrapper
    /\ InitNoPages

NextAll == NextFleet \/ NextShutdown \/ Tick

SpecShutdown == InitShutdown /\ [][NextAll]_vars

\* the worker of s has ended, or is inside a call that never returns
WorkerSettled(s) ==
    \/ ~is_alive(s)
    \/ wk[s].pc = "starting" /\ wk[s].finishAt = Never
    \/ wk[s].pc = "listing" /\ servers[s].list = "hang"

\* cleanup_all_resources is invoked once initialization is over and no
\* worker will write any more: the clients tracked at the invocation are
\* those of the snapshot AWSMCPManager.cleanup takes
cleanup_at_rest ==
    /\ initPc = "done"
    /\ \A s \in Servers : WorkerSettled(s)
    /\ cleanup_all_resources

NextAtRest ==
    \/ NextFleet
    \/ Tick
    \/ cleanup_at_rest
    \/ cleanup_all_resources_start
    \/ cleanup_join_returns
    \/ cleanup_join_times_out
    \/ main_exit
    \/ cleanup_with_timeout
    \/ manager_cleanup
    \/ manager_cleanup_loop
    \/ manager_join_returns
    \/ manager_join_times_out
    \/ manager_clear_clients
    \/ manager_clear_tools
    \/ gateway_stop
    \/ \E s \in Servers : cleanup_worker_terminate(s)
    \/ \E s \in Servers : cleanup_worker_kill(s)
    \/ \E s \in Servers : cleanup_worker_stop(s)

SpecAtRest == InitShutdown /\ [][NextAtRest]_vars

\* the same, and the manager's own cleanup is called again afterwards;
\* servers that answer at once or never, or whose thread cannot be started
AgainBehaviours ==
    {[cfg |-> "enabled", start |-> st, dur |-> 50, list |-> "tools"] :
        st \in {"ok", "hang", "nothread"}}

InitAgain ==
    /\ now = 0
    /\ InitFleetWith(AgainBehaviours)
    /\ InitShutdownWith({"None", "started"})
    /\ InitWrapper
    /\ InitNoPages

NextAgain == NextAll \/ manager_exit

SpecAgain == InitAgain /\ [][NextAgain]_vars

\* no fleet: AWSMCPManager is not used
InitNoFleet ==
    /\ now = 0
    /\ InitFleetWith({[cfg |-> "disabled", start |-> "ok", dur |-> 50, list |-> "tools"]})
    /\ InitShutdownWith({"None"})

\* one McpServerWrapper and its callers
InitWrapperOnly ==
    /\ InitNoFleet
    /\ InitWrapper
    /\ InitNoPages

SpecWrapper == InitWrapperOnly /\ [][NextWrapper]_vars

\* the wrapper as the Lambda handler uses it: one event at a time
SpecLambda == InitWrapperOnly /\ [][NextLambda]_vars

\* the two programs that end child processes, each on its own: the agent
\* (AWSMCPManager.cleanup under cleanup_all_resources) with no wrapper, or
\* the Lambda function (McpServerWrapper.cleanup) with no agent
TerminateBehaviours ==
    {[cfg |-> "enabled", start |-> st, dur |-> 50, list |-> "tools"] :
        st \in {"ok", "hang", "nothread"}}

InitAgentAlone ==
    /\ now = 0
    /\ InitFleetWith(TerminateBehaviours)
    /\ InitShutdownWith({"None"})
    /\ process = 0
    /\ children = <<>>
    /\ callers = [c \in Callers |-> IdleCaller]
    /\ calls = [c \in Callers |-> 0]
    /\ last = [c \in Callers |-> NoCall]
    /\ wc = [NoWrapperCleanup EXCEPT !.pc = "none"]
    /\ InitNoPages

InitLambdaAlone ==
    /\ now = 0
    /\ servers = [s \in Servers |->
                    [cfg |-> "disabled", start |-> "ok", dur |-> 50, list |-> "tools"]]
    /\ initPc = "none"
    /\ idx = 0
    /\ joinStart = 0
    /\ joinDeadline = 0
    /\ initStart = 0
    /\ initEnd = Never
    /\ wk = [s \in Servers |-> NoWorker]
    /\ mcp_clients = <<>>
    /\ mcp_tools = <<>>
    /\ attempted = {}
    /\ timedOut = {}
    /\ raisedOut = FALSE
    /\ aws_mcp_manager = "None"
    /\ proc = [s \in Servers |-> "none"]
    /\ hostExited = FALSE
    /\ mcp_client = "None"
    /\ cleanup_done = FALSE
    /\ cleanup_registered = FALSE
    /\ coordPc = "none"
    /\ coordStart = 0
    /\ ct = NoCleanupThread
    /\ cw = [s \in Servers |-> NoCleanupWorker]
    /\ stopped = {}
    /\ second = {}
    /\ InitWrapper
    /\ InitNoPages

InitTerminate == InitAgentAlone \/ InitLambdaAlone

NextTerminate == NextAll \/ NextLambda

SpecTerminate == InitTerminate /\ [][NextTerminate]_vars

\* one call of get_full_tools_list against each kind of server
InitPagesOnly ==
    /\ InitNoFleet
    /\ InitWrapper
    /\ InitPages

SpecPages == InitPagesOnly /\ [][NextPages]_vars

\* init_client_worker: full_env = os.environ.copy(); for an aws server
\* setdefault of the two region variables; full_env.update(env);
\* setdefault of the three log-verbosity variables
full_env(environ, env, aws) ==
    setdefault(update(IF aws THEN setdefault(environ, RegionKeys) ELSE environ,
                      env),
               LogKeys)

\* _ensure_server_running: env = os.environ.copy();
\* env.update(self.config.get("env", {}))
wrapper_env(environ, env) == update(environ, env)

\* every host environment and every 'env' entry of a server, and whether
\* 'aws' occurs in the server's name or arguments
InitEnvironment ==
    /\ InitNoFleet
    /\ InitWrapper
    /\ pgServer = [npages |-> 1, loop |-> FALSE, shape |-> "list", failAt |-> 0,
                   fallbackRaises |-> FALSE]
    /\ pg = IdlePager
    /\ lt = NoListing
    /\ \E h \in [EnvKeys -> {Unset, "host"}], e \in [EnvKeys -> {Unset, "spec"}],
          a \in BOOLEAN :
          ec = [pc |-> "called", aws |-> a, environ |-> h, env |-> e,
                child |-> [k \in EnvKeys |-> Unset]]
    /\ sg = NoSignals

\* the agent builds the environment of a server's child
init_client_worker_env ==
    /\ ec.pc = "called"
    /\ ec' = [ec EXCEPT !.pc = "agent",
                        !.child = full_env(ec.environ, ec.env, ec.aws)]
    /\ UNCHANGED <<now, fleetVars, shutVars, wrapVars, pgServer, pg, lt, sg>>

\* the wrapper builds the environment of its child
ensure_server_running_env ==
    /\ ec.pc = "called"
    /\ ec' = [ec EXCEPT !.pc = "wrapper",
                        !.child = wrapper_env(ec.environ, ec.env)]
    /\ UNCHANGED <<now, fleetVars, shutVars, wrapVars, pgServer, pg, lt, sg>>

NextEnvironment ==
    \/ init_client_worker_env
    \/ ensure_server_running_env

SpecEnvironment == InitEnvironment /\ [][NextEnvironment]_vars

(* ------------- main, signal_handler and cleanup_all_resources ---------- *)
\* The handlers of SIGINT and SIGTERM run on the main thread, on top of
\* whatever it was executing. A frame is the function and the point it is
\* at:
\*   "main:try"         inside the try block of main
\*   "main:finally"     at 'if not _cleanup_done' of the finally block
\*   "main:call"        in the finally block, inside cleanup_all_resources()
\*   "main:os_exit"     at os._exit(0)
\*   "handler:call"     signal_handler, inside cleanup_all_resources()
\*   "handler:sys_exit" signal_handler, at sys.exit(0)
\*   "car:check"        cleanup_all_resources at 'if _cleanup_done'
\*   "car:set"          at '_cleanup_done = True'
\*   "car:start"        at cleanup_thread.start()
\*   "car:join"         inside cleanup_thread.join(timeout=3.0)
Top == sg.stack[Len(sg.stack)]

Running(f) == ~hostExited /\ sg.stack # <<>> /\ Top = f

\* the stack with its innermost frame replaced
SetTop(f) == [sg.stack EXCEPT ![Len(sg.stack)] = f]

\* cleanup_all_resources returns: its frame is dropped and the caller
\* goes on after the call
ReturnToCaller ==
    LET n == Len(sg.stack)
        caller == sg.stack[n - 1]
    IN Append(SubSeq(sg.stack, 1, n - 2),
              IF caller = "handler:call" THEN "handler:sys_exit" ELSE "main:os_exit")

signalUnchanged ==
    UNCHANGED <<now, fleetVars, wrapVars, pgServer, pg, lt, ec, mcp_client,
                cleanup_registered, coordPc, coordStart, ct, cw, stopped, second>>

\* SIGINT or SIGTERM is delivered: signal_handler prints and calls
\* cleanup_all_resources()
signal_handler ==
    /\ ~hostExited
    /\ sg.stack # <<>>
    /\ sg.signals < MaxSignals
    /\ sg' = [sg EXCEPT !.stack = @ \o <<"handler:call", "car:check">>,
                        !.signals = @ + 1,
                        !.raced = @ \/ \E i \in 1 .. Len(sg.stack) :
                                             sg.stack[i] = "car:set"]
    /\ UNCHANGED <<hostExited, cleanup_done>>
    /\ signalUnchanged

\* the try block of main ends, normally or with an exception
main_try_ends ==
    /\ Running("main:try")
    /\ sg' = [sg EXCEPT !.stack = SetTop("main:finally")]
    /\ UNCHANGED <<hostExited, cleanup_done>>
    /\ signalUnchanged

\* finally: if not _cleanup_done: cleanup_all_resources()
main_finally ==
    /\ Running("main:finally")
    /\ sg' = [sg EXCEPT !.stack = IF cleanup_done THEN SetTop("main:os_exit")
                                  ELSE Append(SetTop("main:call"), "car:check")]
    /\ UNCHANGED <<hostExited, cleanup_done>>
    /\ signalUnchanged

\* os._exit(0) at the end of main
main_os_exit ==
    /\ Running("main:os_exit")
    /\ hostExited' = TRUE
    /\ UNCHANGED <<sg, cleanup_done>>
    /\ signalUnchanged

\* if _cleanup_done: return
guard_checked ==
    /\ Running("car:check")
    /\ sg' = [sg EXCEPT !.stack = IF cleanup_done THEN ReturnToCaller
                                  ELSE SetTop("car:set"),
                        !.passed = IF cleanup_done THEN @ ELSE @ + 1]
    /\ UNCHANGED <<hostExited, cleanup_done>>
    /\ signalUnchanged

\* _cleanup_done = True
guard_set ==
    /\ Running("car:set")
    /\ cleanup_done' = TRUE
    /\ sg' = [sg EXCEPT !.stack = SetTop("car:start")]
    /\ UNCHANGED hostExited
    /\ signalUnchanged

\* cleanup_thread.start(); cleanup_thread.join(timeout=3.0)
cleanup_thread_start ==
    /\ Running("car:start")
    /\ sg' = [sg EXCEPT !.stack = SetTop("car:join"), !.threads = @ + 1]
    /\ UNCHANGED <<hostExited, cleanup_done>>
    /\ signalUnchanged

\* the join returns with the thread ended: cleanup_all_resources returns
cleanup_thread_joined ==
    /\ Running("car:join")
    /\ sg' = [sg EXCEPT !.stack = ReturnToCaller]
    /\ UNCHANGED <<hostExited, cleanup_done>>
    /\ signalUnchanged

\* the join expires with the thread alive: os._exit(0)
cleanup_thread_abandoned ==
    /\ Running("car:join")
    /\ hostExited' = TRUE
    /\ UNCHANGED <<sg, cleanup_done>>
    /\ signalUnchanged

\* a variant of handler_sys_exit: the handler returns, and what it
\* interrupted goes on
handler_returns ==
    /\ Running("handler:sys_exit")
    /\ sg' = [sg EXCEPT !.stack = SubSeq(@, 1, Len(@) - 1)]
    /\ UNCHANGED <<hostExited, cleanup_done>>
    /\ signalUnchanged

\* sys.exit(0) in the handler: SystemExit leaves every frame above main's.
\* Raised inside the try block, it sends main to its finally block; raised
\* inside the finally block, it leaves main and the interpreter exits
handler_sys_exit ==
    /\ Running("handler:sys_exit")
    /\ IF sg.stack[1] = "main:try"
         THEN /\ sg' = [sg EXCEPT !.stack = <<"main:finally">>]
              /\ UNCHANGED hostExited
         ELSE /\ hostExited' = TRUE
              /\ UNCHANGED sg
    /\ UNCHANGED cleanup_done
    /\ signalUnchanged

\* main is inside its try block; signals may arrive at any point
InitSignals ==
    /\ InitNoFleet
    /\ InitWrapper
    /\ pgServer = [npages |-> 1, loop |-> FALSE, shape |-> "list", failAt |-> 0,
                   fallbackRaises |-> FALSE]
    /\ pg = IdlePager
    /\ lt = NoListing
    /\ ec = NoEnvironment
    /\ sg = [NoSignals EXCEPT !.stack = <<"main:try">>]

NextSignals ==
    \/ signal_handler
    \/ main_try_ends
    \/ main_finally
    \/ main_os_exit
    \/ guard_checked
    \/ guard_set
    \/ cleanup_thread_start
    \/ cleanup_thread_joined
    \/ cleanup_thread_abandoned
    \/ handler_sys_exit

SpecSignals == InitSignals /\ [][NextSignals]_vars

\* the lists of tools a response can carry
ToolLists ==
    UNION {[1 .. n -> {RawTool(k) : k \in 1 .. ToolsPerServer} \cup {NamelessTool}] :
             n \in 0 .. ToolsPerServer}

\* what client.list_tools_sync() can give: a bare list, a dict with or
\* without a 'tools' entry, None, an object of another type, an exception
Responses ==
    {[type |-> "list", has_tools |-> FALSE, items |-> l] : l \in ToolLists}
    \cup {[type |-> "dict", has_tools |-> h, items |-> l] :
             h \in BOOLEAN, l \in ToolLists}
    \cup {[type |-> "other", has_tools |-> FALSE, items |-> l] : l \in ToolLists}
    \cup {[type |-> ty, has_tools |-> FALSE, items |-> <<>>] :
             ty \in {"None", "raise"}}

\* one call of _get_tools_from_client on each response, for each server name
InitListing ==
    /\ InitNoFleet
    /\ InitWrapper
    /\ pgServer = [npages |-> 1, loop |-> FALSE, shape |-> "list", failAt |-> 0,
                   fallbackRaises |-> FALSE]
    /\ pg = IdlePager
    /\ \E r \in Responses, s \in Servers :
          lt = [pc |-> "called", server_name |-> ServerName(s), tools |-> r,
                result |-> <<>>, raised |-> FALSE]
    /\ ec = NoEnvironment
    /\ sg = NoSignals

\* _get_tools_from_client runs to its return; every exception is caught
get_tools_from_client_call ==
    /\ lt.pc = "called"
    /\ lt' = [lt EXCEPT !.pc = "returned",
                        !.result = tools_from_response(lt.tools, lt.server_name),
                        !.raised = FALSE]
    /\ UNCHANGED <<now, fleetVars, shutVars, wrapVars, pgServer, pg, ec, sg>>

NextListing == get_tools_from_client_call

SpecListing == InitListing /\ [][NextListing]_vars

(* ======================================================================= *)
(*                        properties of fleet startup                      *)
(* ======================================================================= *)
\* slack granted to "fixed overhead" and to "about" in statements on time (ms)
FixedOverhead == 500

\* the budget as the documentation states it: 2.0 s for the known-slow
\* names, 5.0 s otherwise
Budget(s) ==
    IF ServerName(s) \in {"awslabs.prometheus-mcp-server", "aws-knowledge-mcp-server",
                          "awslabs.cloudwatch-mcp-server"}
    THEN 2000 ELSE 5000

RECURSIVE SumBudget(_)
SumBudget(S) ==
    IF S = {} THEN 0
    ELSE LET s == CHOOSE x \in S : TRUE IN Budget(s) + SumBudget(S \ {s})

MaxBudget(S) ==
    IF S = {} THEN 0 ELSE CHOOSE b \in {Budget(s) : s \in S} :
                             \A s \in S : Budget(s) <= b

\* servers that get a worker thread joined against a timeout
Joined == {s \in Servers : servers[s].cfg = "enabled" /\ servers[s].start # "nothread"}

\* time spent in initialize_aws_mcp_clients so far (in all, once it returned)
Elapsed == (IF initPc = "done" THEN initEnd ELSE now) - initStart

\* some tool tagged with server s is in the catalog
HasToolsOf(s) ==
    \E i \in 1 .. Len(mcp_tools) : mcp_tools[i]._server_name = ServerName(s)

C3_TimedOutNeverRegistered ==
    \A s \in timedOut : s \notin Keys(mcp_clients) /\ ~HasToolsOf(s)

\* C4: no failure while starting one server leaves
\* initialize_aws_mcp_clients as an exception, and when it returns every
\* enabled server has been attempted.
C4_FailuresAbsorbed ==
    /\ ~raisedOut
    /\ initPc = "done" => enabled_servers \subseteq attempted

\* C4 witness: initialization is over, a server failed (thread start, spawn,
\* or timeout) and a later server was attempted and came up
C4_LaterServerAfterFailure ==
    /\ initPc = "done"
    /\ \E s, t \in Servers :
        /\ s < t
        /\ \/ servers[s].cfg = "enabled" /\ servers[s].start = "nothread"
           \/ wk[s].pc = "failed"
           \/ s \in timedOut
        /\ t \in attempted
        /\ t \in Keys(mcp_clients)

\* C5: while _initialize_single_mcp_client waits in join, no more than the
\* server's budget (2.0 s for the known-slow names, 5.0 s otherwise) has
\* passed since it started the worker.
C5_JoinWithinBudget ==
    initPc = "join" => now - joinStart <= Budget(idx)

\* C5 witness: the join of a known-slow server whose tool listing never
\* returns is at its 2 s deadline
C5_JoinAtDeadline ==
    /\ initPc = "join"
    /\ ServerName(idx) \in problematic_servers
    /\ servers[idx].list = "hang"
    /\ wk[idx].pc = "listing"
    /\ now - joinStart = 2000

\* the scenario of C6: fast answers in 50 ms, slow in 5 s, hanging never;
\* slow and hanging are on the known-slow list
Scenario ==
    /\ NumServers >= 3
    /\ servers[1] = [cfg |-> "enabled", start |-> "ok", dur |-> 50, list |-> "tools"]
    /\ servers[2] = [cfg |-> "enabled", start |-> "ok", dur |-> 5000, list |-> "tools"]
    /\ servers[3] = [cfg |-> "enabled", start |-> "hang", dur |-> 50, list |-> "tools"]
    /\ \A s \in Servers : s > 3 => servers[s].cfg = "disabled"

C2_ShutdownBounded ==
    /\ coordPc = "join" =>
          /\ now - coordStart <= 3000
          /\ ENABLED NextAll
    /\ coordPc = "exited" =>
          /\ hostExited
          /\ ct.pc # "done"
          /\ now - coordStart = 3000
    /\ (coordPc = "returned" /\ cleanup_done) =>
          /\ ct.pc = "done"
          /\ now - coordStart <= 3000

\* C2 witness: the host was ended at the deadline while a client's
\* cleanup worker was stuck in client.stop()
C2_ExitedOnHungClient ==
    /\ coordPc = "exited"
    /\ hostExited
    /\ \E s \in Servers : cw[s].pc = "hung"
    /\ now = coordStart + 3000

\* a worker has written its client entry and not yet its tools
MidUpdate(s) == wk[s].pc = "write_tools"

\* AWSMCPManager.cleanup is between its snapshot of mcp_clients and the
\* end of its two clears
MidCleanup == ct.pc \in {"mgr_loop", "mgr_join", "mgr_clear_clients", "mgr_clear_tools"}

\* C8: updates of mcp_clients and mcp_tools never interleave: at most one
\* of the initialization workers and the cleanup pass is in the middle of
\* its update, and no client entry appears between the snapshot cleanup
\* took and its clear.
C8_SingleWriter ==
    /\ Cardinality({s \in Servers : MidUpdate(s)}) + (IF MidCleanup THEN 1 ELSE 0) <= 1
    /\ MidCleanup => Keys(mcp_clients) \subseteq Keys(ct.snapshot)

(* ======================================================================= *)
(*                     properties of McpServerWrapper                      *)
(* ======================================================================= *)
\* the callers that have written a request line to child p and have not
\* yet read a line back
Outstanding(p) == {c \in Callers : callers[c].pc = "read" /\ callers[c].process = p}

\* C7: one outstanding request at a time on a child, and every response
\* handle_request hands back from the child answers the caller's own
\* request.
C7_OneOutstandingOwnResponse ==
    /\ \A p \in 1 .. Len(children) : Cardinality(Outstanding(p)) <= 1
    /\ \A c \in Callers :
          last[c].resp.kind = "result" => last[c].resp.id = last[c].req

(* ======================================================================= *)
(*                    properties of get_full_tools_list                    *)
(* ======================================================================= *)
\* C9: get_full_tools_list ends for every server: its loop makes at most
\* 10 calls, the except branch at most one more, and until it has returned
\* it can always take a step.
C9_PaginationBounded ==
    /\ pg.iteration <= 10
    /\ pg.fallbacks <= 1
    /\ Len(pg.sent) = pg.iteration + pg.fallbacks
    /\ pg.pc # "done" => ENABLED NextPages

\* C9 witness: against a server that names a next page on every answer the
\* loop stopped after its tenth call and the function returned
C9_TokenLoopStopped ==
    /\ pgServer.loop
    /\ pgServer.shape = "object"
    /\ pgServer.failAt = 0
    /\ pg.pc = "done"
    /\ pg.iteration = 10
    /\ pg.more_tools

\* C10: from a server that holds two pages, the first answered with a
\* token and the second without, get_full_tools_list returns page 1
\* followed by page 2, and its second call carries the first page's token.
C10_TwoPagesConcatenated ==
    ( /\ pg.pc = "done"
      /\ pgServer.npages = 2
      /\ ~pgServer.loop
      /\ pgServer.failAt = 0
      /\ pgServer.shape \in {"list", "object"} ) =>
        /\ pg.result = Page(1) \o Page(2)
        /\ pg.sent = <<0, 2>>

(* ======================================================================= *)
(*                     properties of repeated shutdown                     *)
(* ======================================================================= *)
\* no cleanup_worker is running: none is between its start and its end
NoCleanupWorkerActive == \A s \in Servers : cw[s].pc \in {"none", "done", "hung"}

\* C11: shutdown is idempotent: a call of cleanup_all_resources made after
\* a pass has returned goes no further than its test of _cleanup_done (it
\* starts no cleanup thread), and a call of AWSMCPManager.cleanup made after
\* a pass over the clients goes no further than its test of
\* _cleanup_registered: no cleanup_worker is started, so nothing is
\* terminated, killed or stopped, the two clears are not reached, and both
\* flags stay set.
C11_SecondCallNoOp ==
    /\ "cleanup_all_resources" \in second =>
          /\ coordPc = "returned"
          /\ cleanup_done
    /\ "cleanup" \in second =>
          /\ ct.pc \in {"mgr_guard", "done"}
          /\ NoCleanupWorkerActive
          /\ cleanup_registered

\* C11 witness: both functions were entered again after a pass that had
\* stopped a client
C11_BothCalledAgain ==
    /\ second = {"cleanup_all_resources", "cleanup"}
    /\ ct.pc = "done"
    /\ Len(ct.snapshot) >= 1
    /\ \E s \in Servers : s \in stopped

(* ======================================================================= *)
(*                  properties of the per-client cleanup                   *)
(* ======================================================================= *)
\* the places of operation op in the calls a cleanup_worker has made
Places(s, op) == {i \in 1 .. Len(cw[s].ops) : cw[s].ops[i] = op}

\* C12 (as stated): the cooperative close of a client (client.stop) is
\* attempted first and the terminate of its process follows it.
C12_CloseThenTerminate ==
    \A s \in Servers :
        \A i \in Places(s, "terminate") :
            \E j \in Places(s, "stop") : j < i

\* C12 (amended): the order is the reverse: the process is terminated (and
\* killed if it is still alive after the sleep) first, and the close of
\* the client is attempted after it, once and last.
C12_TerminateThenClose ==
    \A s \in Servers :
        /\ \A i \in Places(s, "stop") :
              /\ i = Len(cw[s].ops)
              /\ \A j \in Places(s, "terminate") \cup Places(s, "kill") : j < i
        /\ cw[s].pc \in {"done", "hung"} => Places(s, "stop") # {}

\* C12 witness: a client whose process was terminated, then killed, and
\* whose stop was attempted after that
C12_TerminateKillStop ==
    \E s \in Servers :
        /\ cw[s].ops = <<"terminate", "kill", "stop">>
        /\ cw[s].pc = "done"

(* ======================================================================= *)
(*                  properties of ending a child process                   *)
(* ======================================================================= *)
\* C13: a child process is ended gracefully, then by force.
\* The manager's cleanup_worker: kill comes only straight after terminate
\* and only once the 0.1 s sleep is over; the process was killed exactly
\* when kill was called, and a process that exited on the terminate
\* signal was not sent a kill.
\* McpServerWrapper.cleanup: kill comes only straight after terminate and
\* only once the 5 s wait is over; when the waiting is over the child has
\* exited, killed exactly when kill was called; and whenever cleanup has
\* returned it left self.process None.
C13_GracefulThenForced ==
    /\ \A s \in Servers :
          /\ \A i \in Places(s, "kill") :
                /\ i = 2
                /\ cw[s].ops[1] = "terminate"
                /\ now >= cw[s].finishAt
                /\ cw[s].finishAt # Never
          /\ proc[s] = "killed" <=> Places(s, "kill") # {}
          /\ proc[s] = "exited" => Places(s, "kill") = {}
    /\ wc.ops \in {<<>>, <<"terminate">>, <<"terminate", "kill">>}
    /\ wc.ops = <<"terminate", "kill">> => now >= wc.deadline
    /\ wc.pc = "clear" /\ process # 0 =>
          /\ Exited(process)
          /\ children[process].killed <=> wc.ops = <<"terminate", "kill">>
    /\ \A p \in 1 .. Len(children) : children[p].killed => children[p].signalled
    /\ wc.pc = "done" => wc.left = 0

\* C13 witness (the wrapper killed its child after the 5 s, and the
\* handle is None)
C13_WrapperKilledAfterWait ==
    /\ wc.pc = "done"
    /\ wc.ops = <<"terminate", "kill">>
    /\ now >= WaitTimeout
    /\ process = 0
    /\ \E p \in 1 .. Len(children) : children[p].killed

(* ======================================================================= *)
(*                      properties of handle_request                       *)
(* ======================================================================= *)
\* the calls of handle_request that have returned
Returned == {c \in Callers : last[c] # NoCall}

\* C14: handle_request hands every failure back as an error object: a call
\* that met no failure returned a response line of the child as it was
\* decoded, and a call that met a failure (spawn, write, empty read,
\* malformed JSON) returned the error object with code -32603 and the id of
\* its request; an exception is never left pending in a caller that is
\* back outside handle_request.
C14_ErrorsBecomeErrorObjects ==
    /\ \A c \in Returned :
          /\ last[c].err \in {"none", "spawn", "write", "empty", "json"}
          /\ last[c].err = "none" => last[c].resp.kind = "result"
          /\ last[c].err # "none" =>
                last[c].resp = [kind |-> "error -32603", id |-> last[c].req]
    /\ \A c \in Callers :
          callers[c].pc = "idle" => callers[c].err = "none"

\* C14 witness: one call has returned the child's response and another
\* the error object after malformed JSON
C14_SuccessAndError ==
    \E c, d \in Returned :
        /\ last[c].err = "none"
        /\ last[c].resp = [kind |-> "result", id |-> last[c].req]
        /\ last[d].err = "json"
        /\ last[d].resp.id = last[d].req

\* the failures of the exchange with the child
CommunicationFailures == {"write", "empty", "json"}

\* C15: after a communication failure in _send_request the handle is
\* destroyed and not used again: when the exception leaves _send_request
\* the child has been sent terminate and self.process is None, and the
\* process a request is about to write to is never one that was sent
\* terminate -- it was spawned afresh.
C15_FailedHandleNotReused ==
    \A c \in Callers :
        /\ (callers[c].pc = "raised" /\ callers[c].err \in CommunicationFailures) =>
              /\ process = 0
              /\ callers[c].process # 0
              /\ children[callers[c].process].signalled
        /\ callers[c].pc = "write" =>
              /\ callers[c].process # 0
              /\ ~children[callers[c].process].signalled

\* C15 witness: a request failed on the first child, which was sent
\* terminate and is still alive, and the next request is answered by a
\* second child
C15_RespawnedAfterFailure ==
    \E c, d \in Callers :
        /\ last[c].err \in CommunicationFailures
        /\ Len(children) = 2
        /\ children[1].signalled /\ children[1].alive
        /\ callers[d].pc = "return"
        /\ callers[d].process = 2

\* C16 (as stated): a call that finds the child of an earlier exchange
\* exited comes back with a communication-failure error.
C16_ExitYieldsError ==
    \A c \in Returned : last[c].stale => last[c].err \in CommunicationFailures

\* C16 (amended): a call that finds the tracked child exited does not use
\* it and does not wait on it: _ensure_server_running spawns another
\* child (or the spawn fails), the request is written to and read from
\* the new child only, and a read on a child that has exited is never
\* blocked.
C16_ExitedChildReplaced ==
    \A c \in Callers :
        /\ (callers[c].stale /\ callers[c].pc \in {"write", "read", "return"}) =>
              /\ callers[c].process # 0
              /\ callers[c].process > callers[c].tracked
        /\ (callers[c].stale /\ callers[c].pc = "raised"
               /\ callers[c].process = 0) => callers[c].err = "spawn"
        /\ (callers[c].pc = "read" /\ Exited(callers[c].process)) =>
              ENABLED send_request_read(c)

\* C16 witness: the first child answered a request and exited; the next
\* call was answered by a second child, with no error
C16_NextCallAnswered ==
    \E c, d \in Returned :
        /\ c # d
        /\ ~last[c].stale /\ last[c].err = "none"
        /\ last[d].stale /\ last[d].err = "none"
        /\ last[d].resp = [kind |-> "result", id |-> last[d].req]
        /\ Len(children) = 2

(* ======================================================================= *)
(*                 properties of _ensure_server_running                    *)
(* ======================================================================= *)
\* C17: the child is started lazily and reused: none exists before the
\* first call; a child is started only when none is tracked or the tracked
\* one has exited, so every child but the latest has exited or was dropped
\* after terminate, and the tracked one is the latest; hence requests that
\* all succeed against a child that stays alive are served by one child.
\* Every child runs [command] + args.
C17_LazySpawnAndReuse ==
    /\ (\A c \in Callers : calls[c] = 0) => (children = <<>> /\ process = 0)
    /\ \A p \in 1 .. Len(children) :
          /\ children[p].cmd = <<"command", "arg1", "arg2">>
          /\ p < Len(children) => (Exited(p) \/ children[p].signalled)
    /\ process \in {0, Len(children)}
    /\ (children # <<>> /\ children[1].alive /\ ~children[1].signalled) =>
          Len(children) = 1

\* C17 witness: two requests have succeeded and one child, still alive,
\* served both
C17_TwoRequestsOneChild ==
    \E c, d \in Returned :
        /\ c # d
        /\ last[c].err = "none" /\ last[d].err = "none"
        /\ Len(children) = 1
        /\ children[1].alive /\ ~children[1].signalled
        /\ process = 1

(* ======================================================================= *)
(*                       properties of the catalog                         *)
(* ======================================================================= *)
\* C18: the catalog is not cached: once the process of a server has
\* exited, what get_all_aws_tools returns holds none of that server's
\* tools.
C18_ExitedServerLeavesCatalog ==
    \A s \in Servers :
        proc[s] = "exited" =>
            ~ \E i \in 1 .. Len(get_all_aws_tools) :
                  get_all_aws_tools[i]._server_name = ServerName(s)

(* ======================================================================= *)
(*                   properties of _get_tools_from_client                  *)
(* ======================================================================= *)
\* the tools of a list, in order, by name
ToolNames(l) == [i \in 1 .. Len(l) |-> l[i].name]

\* C19: _get_tools_from_client never raises and always returns a list: for
\* a bare list the tools of that list, for a dict with a non-empty 'tools'
\* entry the tools of that entry, and the empty list for None, a dict
\* without tools, an unexpected type, or an exception of list_tools_sync.
C19_AlwaysAList ==
    lt.pc = "returned" =>
        /\ ~lt.raised
        /\ DOMAIN lt.result = 1 .. Len(lt.result)
        /\ IF \/ lt.tools.type = "list"
              \/ lt.tools.type = "dict" /\ lt.tools.has_tools
                   /\ lt.tools.items # <<>>
             THEN ToolNames(lt.result) = ToolNames(lt.tools.items)
             ELSE lt.result = <<>>

\* a dict with two tools under 'tools' has been answered with those two
C19_DictEntryReturned ==
    /\ lt.pc = "returned"
    /\ lt.tools.type = "dict" /\ lt.tools.has_tools
    /\ Len(lt.tools.items) = ToolsPerServer
    /\ Len(lt.result) = ToolsPerServer

(* ======================================================================= *)
(*                     properties of the status query                      *)
(* ======================================================================= *)
\* the start of server s raised, its thread could not be started, or its
\* join expired
InitFailed(s) ==
    /\ s \in attempted
    /\ \/ s \in timedOut
       \/ servers[s].start \in {"raise", "nothread"} /\ servers[s].cfg = "enabled"

\* C20: after fleet initialization the status query reports every server
\* as active, disabled or failed, and a server whose spawn failed or whose
\* initialization timed out as failed, with a reason.
C20_FailedReportedWithReason ==
    initPc = "done" =>
        \A s \in Servers :
            /\ servers[s].cfg # "nocommand" =>
                  manage_mcp_config(s).status \in {"active", "disabled", "failed"}
            /\ InitFailed(s) =>
                  /\ manage_mcp_config(s).status = "failed"
                  /\ manage_mcp_config(s).reason # ""

(* ======================================================================= *)
(*                     properties of skipped servers                       *)
(* ======================================================================= *)
\* the entry of s is disabled or has no command
Skipped(s) == servers[s].cfg \in {"disabled", "nocommand"}

\* C21: a server that is disabled or has no command never gets a worker
\* thread, a child process or a registered client; skipping it raises
\* nothing, and every other server is still initialized.
C21_SkippedNeverStarted ==
    /\ \A s \in Servers :
          Skipped(s) =>
              /\ wk[s] = NoWorker
              /\ proc[s] = "none"
              /\ s \notin Keys(mcp_clients)
    /\ ~raisedOut
    /\ initPc = "done" => \A s \in Servers : ~Skipped(s) => s \in attempted

\* a disabled server and one without a command were passed over, and a
\* later server was registered
C21_LaterServerAfterSkips ==
    /\ initPc = "done"
    /\ \E s, t, u \in Servers :
          /\ s < u /\ t < u
          /\ servers[s].cfg = "disabled"
          /\ servers[t].cfg = "nocommand" /\ t \in attempted
          /\ u \in Keys(mcp_clients)

C23_LogVariablesForced ==
    ec.pc \in {"agent", "wrapper"} =>
        \A k \in EnvKeys :
            /\ ec.env[k] # Unset => ec.child[k] = ec.env[k]
            /\ ec.env[k] = Unset /\ k \notin LogKeys /\ ec.environ[k] # Unset =>
                  ec.child[k] = ec.environ[k]
            /\ ec.env[k] = Unset /\ k \in LogKeys => ec.child[k] = DefaultValue(k)
            /\ ec.aws /\ k \in RegionKeys => ec.child[k] # Unset

(* ======================================================================= *)
(*                    properties of clients at shutdown                    *)
(* ======================================================================= *)
\* client.start() of s has returned normally
StartSucceeded(s) ==
    /\ servers[s].start = "ok"
    /\ wk[s].pc \in {"listing", "write_clients", "write_tools", "done"}

\* C24: once cleanup_all_resources has completed (it returned, or it ended
\* the process), no client whose start() succeeded is left with its
\* process running and its stop() never called.
C24_NoClientOrphaned ==
    coordPc \in {"returned", "exited"} =>
        \A s \in Servers :
            StartSucceeded(s) => s \in stopped \/ proc[s] # "running"

\* C25: in every state, each tool of mcp_tools comes from a server that is
\* a key of mcp_clients.
C25_ToolsHaveRegisteredOrigin ==
    \A i \in 1 .. Len(mcp_tools) :
        \E s \in Keys(mcp_clients) : mcp_tools[i]._server_name = ServerName(s)

(* ======================================================================= *)
(*                   properties of the shutdown guard                      *)
(* ======================================================================= *)
\* C26: whatever the interleaving of the signal handlers and main's
\* finally block, _cleanup_done is assigned and a cleanup thread is started
\* by at most one invocation of cleanup_all_resources.
C26_ShutdownBodyOnce ==
    /\ sg.threads <= 1
    /\ Cardinality({i \in 1 .. Len(sg.stack) :
                       sg.stack[i] \in {"car:start", "car:join"}}) <= 1
    /\ sg.threads = 1 =>
          ~ \E i \in 1 .. Len(sg.stack) : sg.stack[i] = "car:start"

\* a signal arrived between the test and the assignment, a second
\* invocation got past the guard, and the process ended with one cleanup
\* thread started
C26_HandlerBetweenCheckAndSet ==
    /\ sg.raced
    /\ sg.passed >= 2
    /\ sg.threads = 1
    /\ hostExited

\* C27: when the host process has ended after cleanup_all_resources was
\* invoked, a cleanup worker has been started for every client that was
\* tracked at the invocation (the clients of the snapshot, when the
\* invocation comes while no worker is writing).
C27_EveryTrackedClientAttempted ==
    hostExited => \A s \in Keys(ct.snapshot) : cw[s].pc # "none"

(* ======================================================================= *)
(*                   properties of AWSMCPManager.cleanup                   *)
(* ======================================================================= *)
\* AWSMCPManager.cleanup has run to its end
CleanupReturned == cleanup_registered /\ ct.pc \in {"gateway", "done"}

LiveChildren == {p \in 1 .. Len(children) : children[p].alive}

\* C29: at any time at most one child process of the wrapper is alive.
C29_OneLiveChild == Cardinality(LiveChildren) <= 1

\* C30: the error path of _send_request sends terminate to, and clears,
\* only the process the failed request was sent to.
C30_OnlyOwnProcessTerminated ==
    [][\A c \in Callers :
          /\ callers[c].pc = "except" /\ callers'[c].pc = "clear" =>
                process = callers[c].process
          /\ callers[c].pc = "clear" /\ callers'[c].pc = "raised" =>
                process \in {0, callers[c].process}]_vars

=============================================================================
